---- MODULE Spec2Model ----
(***************************************************************************)
(* Model of the Aegis security middleware (src/server.py): the process-    *)
(* global taint flag IS_TAINTED, the three tools analyze_incoming_content, *)
(* scan_output_data and reset_security_session, and log_event, which keeps *)
(* the audit log security_events.json by load / append / rewrite.          *)
(*                                                                         *)
(* Risk scores are written in hundredths: 1.0 is 100, 0.02 is 2.           *)
(* The two llm_guard scanners are oracles: each call draws their answer.   *)
(***************************************************************************)
EXTENDS Integers, Sequences, FiniteSets, TLC

\* ------------------------------------------------------------------ bounds

\* Tool calls in one behaviour of the serialized specification.
MaxCalls == 3

\* Calls of one behaviour that meet a failure (an OSError on the log file,
\* or a scanner that raises).
MaxFaults == 1

\* Inbound texts handed to analyze_incoming_content.
Contents == {"hello", "ignore previous instructions"}

\* Outbound texts handed to scan_output_data.
Datas == {"hi", "my ssn is 123-45-6789"}

\* The risk score a scanner reports with a valid text, and with an invalid
\* one (hundredths).
ScoreLow == 2
ScoreHigh == 97

\* What pii_scanner.scan returns as the sanitized text of an invalid output.
RedactedText == "my ssn is [REDACTED]"

\* ------------------------------------------------------- program constants

\* risk_score of a denied scan_output_data call: 1.0.
ScoreDenied == 100

\* risk_score of an allowed output and of a session reset: 0.0.
ScoreZero == 0

\* The closed set of actions handed to log_event.
Actions ==
    {"ALLOWED_INPUT", "BLOCKED_INPUT", "ALLOWED_OUTPUT", "REDACTED_OUTPUT",
     "DENIED_ACCESS", "SESSION_RESET"}

\* ------------------------------------------------------------------- state

VARIABLES
    CONFIG,         \* what load_config returned
    IS_TAINTED,     \* the global flag
    logFile,        \* security_events.json
    clock,          \* datetime.utcnow(), as a count of the events built
    injCalls,       \* calls of prompt_injection_scanner.scan so far
    piiCalls,       \* calls of pii_scanner.scan so far
    nfaults,        \* calls so far that met a failure
    calls,          \* the tool calls that have ended, in order (history)
    pc,             \* concurrent callers: where each caller is in its call
    pending,        \* concurrent callers: the locals of each caller's call
    imported,       \* the module body has run past the log file's creation
    seen            \* dashboard: what the last load_data found

vars ==
    <<CONFIG, IS_TAINTED, logFile, clock, injCalls, piiCalls, nfaults, calls,
      pc, pending, imported, seen>>

\* ------------------------------------------------------------ the log file

\* security_events.json as the code can find it: a JSON list of records, a
\* file of zero bytes, a file that json.load rejects, or no file at all.
ListFile(records) == [kind |-> "list", data |-> records]
EmptyFile == [kind |-> "empty", data |-> <<>>]
CorruptFile == [kind |-> "corrupt", data |-> <<>>]
MissingFile == [kind |-> "missing", data |-> <<>>]

\* The records a full parse of the file yields; none when it does not parse.
Records(file) == IF file.kind = "list" THEN file.data ELSE <<>>

\* Module start: a log file that does not exist is created as the empty list.
EnsureLogFile_skip(file) == file
EnsureLogFile(file) == IF file.kind = "missing" THEN ListFile(<<>>) ELSE file

\* The event record log_event builds.
Event_swapped(timestamp, event_type, details, score, action) ==
    [timestamp |-> timestamp, event_type |-> action, details |-> details,
     risk_score |-> score, action |-> event_type]
Event(timestamp, event_type, details, score, action) ==
    [timestamp |-> timestamp, event_type |-> event_type, details |-> details,
     risk_score |-> score, action |-> action]

\* Where an OSError may strike log_event. Main path: opening the file "r+",
\* reading it, writing it back. Recovery path: opening it "w", writing it.
MainFaults == {"none", "open", "read", "write"}
RecoveryFaults == {"none", "open", "write"}

\* data.append(event): the new record goes after the ones that were loaded.
data_append_dropped(data, event) == data
data_append_front(data, event) == <<event>> \o data
data_append(data, event) == Append(data, event)

\* The recovery path of log_event: rewrite the file as [event]. An OSError
\* here is raised inside the except clause and leaves log_event; open "w" has
\* by then truncated the file unless it was open itself that failed.
log_event_recover_noop(file, event, rf) ==
    {[file |-> file, raised |-> FALSE, faulted |-> FALSE]}
log_event_recover(file, event, rf) ==
    CASE rf = "open" -> {[file |-> file, raised |-> TRUE, faulted |-> TRUE]}
      [] rf = "write" -> {[file |-> EmptyFile, raised |-> TRUE, faulted |-> TRUE],
                          [file |-> CorruptFile, raised |-> TRUE, faulted |-> TRUE]}
      [] OTHER -> {[file |-> ListFile(<<event>>), raised |-> FALSE, faulted |-> FALSE]}

\* log_event on a file, with the failures mf (main path) and rf (recovery
\* path): the set of outcomes [file after, raised to the caller, a failure
\* struck]. A failed write leaves the file as it was or partly rewritten.
log_event(file, event, mf, rf) ==
    IF file.kind = "missing"
    THEN log_event_recover(file, event, rf)          \* FileNotFoundError
    ELSE IF mf \in {"open", "read"}
    THEN IF file.kind = "empty"                      \* os.path.getsize == 0
         THEN {[o EXCEPT !.faulted = TRUE] : o \in log_event_recover(file, event, rf)}
         ELSE {[file |-> file, raised |-> FALSE, faulted |-> TRUE]}
    ELSE IF file.kind \in {"empty", "corrupt"}
    THEN log_event_recover(file, event, rf)          \* json.JSONDecodeError
    ELSE IF mf = "write"
    THEN {[file |-> file, raised |-> FALSE, faulted |-> TRUE],
          [file |-> CorruptFile, raised |-> FALSE, faulted |-> TRUE]}
    ELSE {[file |-> ListFile(data_append(file.data, event)), raised |-> FALSE,
           faulted |-> FALSE]}

\* --------------------------------------------------------------- scanners

\* An answer of prompt_injection_scanner.scan or pii_scanner.scan: it raised
\* (ok = FALSE), or it returned is_valid and risk_score.
ScannerAnswers ==
    {[ok |-> TRUE, valid |-> TRUE, score |-> ScoreLow],
     [ok |-> TRUE, valid |-> FALSE, score |-> ScoreHigh],
     [ok |-> FALSE, valid |-> FALSE, score |-> ScoreZero]}

\* sanitized_output of pii_scanner.scan: the output itself when it is valid.
Sanitized(data_to_scan, ans) == IF ans.valid THEN data_to_scan ELSE RedactedText

\* ------------------------------------------------------- the tools' bodies

\* analyze_incoming_content after the scanner has answered: the new value of
\* IS_TAINTED, the arguments of log_event and the dict returned.
analyze_result_no_taint(content_to_scan, ans, tainted) ==
    IF ~ans.valid
    THEN LET details == [original_content |-> content_to_scan,
                         reason |-> "High-risk prompt injection attempt detected."]
         IN [tainted |-> tainted, event_type |-> "INJECTION_DETECTED",
             details |-> details, score |-> ans.score, action |-> "BLOCKED_INPUT",
             ret |-> [status |-> "SECURITY_ALERT", action |-> "BLOCKED_INPUT",
                      is_valid |-> FALSE, risk_score |-> ans.score,
                      details |-> details]]
    ELSE [tainted |-> tainted, event_type |-> "INFO",
          details |-> [scanned_content |-> content_to_scan],
          score |-> ans.score, action |-> "ALLOWED_INPUT",
          ret |-> [status |-> "SUCCESS", action |-> "ALLOWED_INPUT",
                   is_valid |-> TRUE, risk_score |-> ans.score,
                   details |-> "Content scanned and verified."]]
analyze_result_clears(content_to_scan, ans, tainted) ==
    IF ~ans.valid
    THEN LET details == [original_content |-> content_to_scan,
                         reason |-> "High-risk prompt injection attempt detected."]
         IN [tainted |-> TRUE, event_type |-> "INJECTION_DETECTED",
             details |-> details, score |-> ans.score, action |-> "BLOCKED_INPUT",
             ret |-> [status |-> "SECURITY_ALERT", action |-> "BLOCKED_INPUT",
                      is_valid |-> FALSE, risk_score |-> ans.score,
                      details |-> details]]
    ELSE [tainted |-> FALSE, event_type |-> "INFO",
          details |-> [scanned_content |-> content_to_scan],
          score |-> ans.score, action |-> "ALLOWED_INPUT",
          ret |-> [status |-> "SUCCESS", action |-> "ALLOWED_INPUT",
                   is_valid |-> TRUE, risk_score |-> ans.score,
                   details |-> "Content scanned and verified."]]
analyze_result_zero_score(content_to_scan, ans, tainted) ==
    IF ~ans.valid
    THEN LET details == [original_content |-> content_to_scan,
                         reason |-> "High-risk prompt injection attempt detected."]
         IN [tainted |-> TRUE, event_type |-> "INJECTION_DETECTED",
             details |-> details, score |-> ans.score, action |-> "BLOCKED_INPUT",
             ret |-> [status |-> "SECURITY_ALERT", action |-> "BLOCKED_INPUT",
                      is_valid |-> FALSE, risk_score |-> ans.score,
                      details |-> details]]
    ELSE [tainted |-> tainted, event_type |-> "INFO",
          details |-> [scanned_content |-> content_to_scan],
          score |-> ScoreZero, action |-> "ALLOWED_INPUT",
          ret |-> [status |-> "SUCCESS", action |-> "ALLOWED_INPUT",
                   is_valid |-> TRUE, risk_score |-> ScoreZero,
                   details |-> "Content scanned and verified."]]
analyze_result(content_to_scan, ans, tainted) ==
    IF ~ans.valid
    THEN LET details == [original_content |-> content_to_scan,
                         reason |-> "High-risk prompt injection attempt detected."]
         IN [tainted |-> TRUE, event_type |-> "INJECTION_DETECTED",
             details |-> details, score |-> ans.score, action |-> "BLOCKED_INPUT",
             ret |-> [status |-> "SECURITY_ALERT", action |-> "BLOCKED_INPUT",
                      is_valid |-> FALSE, risk_score |-> ans.score,
                      details |-> details]]
    ELSE [tainted |-> tainted, event_type |-> "INFO",
          details |-> [scanned_content |-> content_to_scan],
          score |-> ans.score, action |-> "ALLOWED_INPUT",
          ret |-> [status |-> "SUCCESS", action |-> "ALLOWED_INPUT",
                   is_valid |-> TRUE, risk_score |-> ans.score,
                   details |-> "Content scanned and verified."]]

\* scan_output_data reads IS_TAINTED first: the PII scanner is called only
\* when the flag is false.
scan_calls_pii_always(tainted) == TRUE
scan_calls_pii(tainted) == ~tainted

\* scan_output_data: the arguments of log_event and the dict returned, from
\* the flag and (flag false) the scanner's answer.
scan_result_oracle_score(data_to_scan, ans, tainted) ==
    IF ~scan_calls_pii(tainted)
    THEN LET details == [reason |-> "Access to data denied because session is tainted."]
         IN [event_type |-> "ACCESS_DENIED", details |-> details,
             score |-> ScoreDenied, action |-> "DENIED_ACCESS",
             ret |-> [status |-> "ACCESS_DENIED", action |-> "DENIED_ACCESS",
                      risk_score |-> ScoreDenied, details |-> details]]
    ELSE IF ~ans.valid
    THEN LET details == [original_data |-> data_to_scan,
                         redacted_data |-> Sanitized(data_to_scan, ans),
                         reason |-> "Sensitive PII detected and redacted."]
         IN [event_type |-> "PII_REDACTED", details |-> details,
             score |-> ans.score, action |-> "REDACTED_OUTPUT",
             ret |-> [status |-> "SUCCESS_REDACTED", action |-> "REDACTED_OUTPUT",
                      risk_score |-> ans.score,
                      sanitized_data |-> Sanitized(data_to_scan, ans),
                      details |-> details]]
    ELSE [event_type |-> "INFO", details |-> [data |-> data_to_scan],
          score |-> ans.score, action |-> "ALLOWED_OUTPUT",
          ret |-> [status |-> "SUCCESS", action |-> "ALLOWED_OUTPUT",
                   risk_score |-> ans.score, sanitized_data |-> data_to_scan,
                   details |-> "Data scanned and verified."]]
scan_result(data_to_scan, ans, tainted) ==
    IF ~scan_calls_pii(tainted)
    THEN LET details == [reason |-> "Access to data denied because session is tainted."]
         IN [event_type |-> "ACCESS_DENIED", details |-> details,
             score |-> ScoreDenied, action |-> "DENIED_ACCESS",
             ret |-> [status |-> "ACCESS_DENIED", action |-> "DENIED_ACCESS",
                      risk_score |-> ScoreDenied, details |-> details]]
    ELSE IF ~ans.valid
    THEN LET details == [original_data |-> data_to_scan,
                         redacted_data |-> Sanitized(data_to_scan, ans),
                         reason |-> "Sensitive PII detected and redacted."]
         IN [event_type |-> "PII_REDACTED", details |-> details,
             score |-> ans.score, action |-> "REDACTED_OUTPUT",
             ret |-> [status |-> "SUCCESS_REDACTED", action |-> "REDACTED_OUTPUT",
                      risk_score |-> ans.score,
                      sanitized_data |-> Sanitized(data_to_scan, ans),
                      details |-> details]]
    ELSE [event_type |-> "INFO", details |-> [data |-> data_to_scan],
          score |-> ScoreZero, action |-> "ALLOWED_OUTPUT",
          ret |-> [status |-> "SUCCESS", action |-> "ALLOWED_OUTPUT",
                   risk_score |-> ScoreZero, sanitized_data |-> data_to_scan,
                   details |-> "Data scanned and verified."]]

\* reset_security_session: the flag it stores, the arguments of log_event and
\* the dict returned.
reset_result_no_clear ==
    [tainted |-> IS_TAINTED, event_type |-> "ADMIN_ACTION",
     details |-> [action |-> "Session reset"], score |-> ScoreZero,
     action |-> "SESSION_RESET",
     ret |-> [status |-> "SUCCESS", message |-> "Security session has been reset."]]
reset_result_wrong_score ==
    [tainted |-> FALSE, event_type |-> "ADMIN_ACTION",
     details |-> [action |-> "Session reset"], score |-> ScoreDenied,
     action |-> "SESSION_RESET",
     ret |-> [status |-> "SUCCESS", message |-> "Security session has been reset."]]
reset_result ==
    [tainted |-> FALSE, event_type |-> "ADMIN_ACTION",
     details |-> [action |-> "Session reset"], score |-> ScoreZero,
     action |-> "SESSION_RESET",
     ret |-> [status |-> "SUCCESS", message |-> "Security session has been reset."]]


\* ------------------------------------------------- start of the process

\* What load_config may return, as far as the tools could tell it apart: the
\* key enable_prompt_injection_scanner of config.json.
Configs == [enable_prompt_injection_scanner : BOOLEAN]

\* The log file at module import, before lines 45-48 run.
InitialFiles ==
    {MissingFile, EmptyFile, CorruptFile, ListFile(<<>>)}

\* What a call that raised hands its caller, the event of a call that never
\* reached log_event, and the locals of a caller that is in no call.
NoResult == [status |-> "RAISED"]
NoEvent == [action |-> "NONE"]
NoPending == [op |-> "none"]

\* The placeholder for the content a write step has replaced, before any.
NoFile == [kind |-> "none"]

\* The dashboard before its first load_data.
NoneSeen == [rows |-> <<>>, error |-> FALSE, durable |-> 0, loaded |-> FALSE]

\* The concurrent callers of the process.
NumProcs == 2
Procs == 1..NumProcs

\* Tool calls in one behaviour of the concurrent specification.
MaxConcCalls == 2

\* The state once the module is imported, for each configuration of configs.
Start(configs) ==
    /\ CONFIG \in configs
    /\ IS_TAINTED = FALSE
    /\ \E f \in InitialFiles : logFile = EnsureLogFile(f)
    /\ clock = 0
    /\ injCalls = 0
    /\ piiCalls = 0
    /\ nfaults = 0
    /\ calls = <<>>
    /\ pc = [p \in Procs |-> "idle"]
    /\ pending = [p \in Procs |-> NoPending]
    /\ imported = TRUE
    /\ seen = NoneSeen

\* A process whose configuration leaves the injection scanner enabled.
Init == Start({c \in Configs : c.enable_prompt_injection_scanner})

\* A process with any configuration.
InitAnyConfig == Start(Configs)

\* ------------------------------------------------ the tools, one at a time

\* The answer field of a call that asks no scanner.
NoAnswer == [ok |-> TRUE, valid |-> TRUE, score |-> ScoreZero]

\* One entry of the history: the call, the state it found, what it decided
\* and the state it left.
CallRecord(op, arg, ans, t0, f0, event, faulted, raised, ret, t1, f1) ==
    [op |-> op, arg |-> arg, ans |-> ans,
     tainted_before |-> t0, file_before |-> f0,
     event |-> event, faulted |-> faulted, raised |-> raised,
     ret |-> IF raised THEN NoResult ELSE ret,
     tainted_after |-> t1, file_after |-> f1]

\* The call of a scanner that raised: nothing after the scan runs.
ScannerRaised(op, arg, ans) ==
    /\ nfaults < MaxFaults
    /\ nfaults' = nfaults + 1
    /\ calls' = Append(calls,
                       CallRecord(op, arg, ans, IS_TAINTED, logFile, NoEvent,
                                  FALSE, TRUE, NoResult, IS_TAINTED, logFile))
    /\ UNCHANGED <<IS_TAINTED, logFile, clock>>

\* The rest of a call once its decision d is made: set the flag, build the
\* event, run log_event, return or raise.
Decided_taint_after_log(op, arg, ans, tainted_after, d, mf, rf) ==
    LET event == Event(clock + 1, d.event_type, d.details, d.score, d.action)
    IN \E out \in log_event(logFile, event, mf, rf) :
          LET stored == IF out.raised THEN IS_TAINTED ELSE tainted_after
          IN /\ out.faulted => nfaults < MaxFaults
             /\ nfaults' = IF out.faulted THEN nfaults + 1 ELSE nfaults
             /\ IS_TAINTED' = stored
             /\ clock' = clock + 1
             /\ logFile' = out.file
             /\ calls' = Append(calls,
                                CallRecord(op, arg, ans, IS_TAINTED, logFile,
                                           event, out.faulted, out.raised, d.ret,
                                           stored, out.file))
Decided(op, arg, ans, tainted_after, d, mf, rf) ==
    LET event == Event(clock + 1, d.event_type, d.details, d.score, d.action)
    IN \E out \in log_event(logFile, event, mf, rf) :
          /\ out.faulted => nfaults < MaxFaults
          /\ nfaults' = IF out.faulted THEN nfaults + 1 ELSE nfaults
          /\ IS_TAINTED' = tainted_after
          /\ clock' = clock + 1
          /\ logFile' = out.file
          /\ calls' = Append(calls,
                             CallRecord(op, arg, ans, IS_TAINTED, logFile,
                                        event, out.faulted, out.raised, d.ret,
                                        tainted_after, out.file))

analyze_incoming_content(content_to_scan, ans, mf, rf) ==
    /\ Len(calls) < MaxCalls
    /\ injCalls' = injCalls + 1
    /\ UNCHANGED <<CONFIG, imported, seen, piiCalls, pc, pending>>
    /\ IF ~ans.ok
       THEN ScannerRaised("analyze", content_to_scan, ans)
       ELSE LET d == analyze_result(content_to_scan, ans, IS_TAINTED)
            IN Decided("analyze", content_to_scan, ans, d.tainted, d, mf, rf)

scan_output_data(data_to_scan, ans, mf, rf) ==
    /\ Len(calls) < MaxCalls
    /\ UNCHANGED <<CONFIG, imported, seen, injCalls, pc, pending>>
    /\ piiCalls' = IF scan_calls_pii(IS_TAINTED) THEN piiCalls + 1 ELSE piiCalls
    /\ IF scan_calls_pii(IS_TAINTED) /\ ~ans.ok
       THEN ScannerRaised("scan", data_to_scan, ans)
       ELSE LET d == scan_result(data_to_scan, ans, IS_TAINTED)
            IN Decided("scan", data_to_scan,
                       IF scan_calls_pii(IS_TAINTED) THEN ans ELSE NoAnswer,
                       IS_TAINTED, d, mf, rf)

reset_security_session(mf, rf) ==
    /\ Len(calls) < MaxCalls
    /\ UNCHANGED <<CONFIG, imported, seen, injCalls, piiCalls, pc, pending>>
    /\ LET d == reset_result
       IN Decided("reset", "", NoAnswer, d.tainted, d, mf, rf)

Next ==
    \/ \E c \in Contents, ans \in ScannerAnswers, mf \in MainFaults, rf \in RecoveryFaults :
          analyze_incoming_content(c, ans, mf, rf)
    \/ \E d \in Datas, ans \in ScannerAnswers, mf \in MainFaults, rf \in RecoveryFaults :
          scan_output_data(d, ans, mf, rf)
    \/ \E mf \in MainFaults, rf \in RecoveryFaults :
          reset_security_session(mf, rf)

Spec == Init /\ [][Next]_vars

\* Something outside the process removes security_events.json between calls.
LogFileRemoved ==
    /\ logFile.kind # "missing"
    /\ Len(calls) < MaxCalls
    /\ nfaults < MaxFaults
    /\ nfaults' = nfaults + 1
    /\ logFile' = MissingFile
    /\ UNCHANGED <<CONFIG, imported, seen, IS_TAINTED, clock, injCalls, piiCalls, calls, pc, pending>>

NextEnv ==
    \/ Next
    \/ LogFileRemoved

SpecEnv == Init /\ [][NextEnv]_vars

SpecConfig == InitAnyConfig /\ [][Next]_vars

\* The process from the point where the module body reaches the creation of
\* the log file (line 45): the file is as the previous run or the operator
\* left it, and no tool can be called before the module is imported.
InitBoot ==
    /\ CONFIG \in {c \in Configs : c.enable_prompt_injection_scanner}
    /\ IS_TAINTED = FALSE
    /\ logFile \in InitialFiles
    /\ clock = 0
    /\ injCalls = 0
    /\ piiCalls = 0
    /\ nfaults = 0
    /\ calls = <<>>
    /\ pc = [p \in Procs |-> "idle"]
    /\ pending = [p \in Procs |-> NoPending]
    /\ imported = FALSE
    /\ seen = NoneSeen

\* Lines 45-48: if the log file does not exist it is written as [].
ImportModule ==
    /\ ~imported
    /\ imported' = TRUE
    /\ logFile' = EnsureLogFile(logFile)
    /\ UNCHANGED <<CONFIG, IS_TAINTED, clock, injCalls, piiCalls, nfaults, calls,
                   pc, pending, seen>>

ToolCall == imported /\ Next

NextBoot ==
    \/ ImportModule
    \/ ToolCall

SpecBoot == InitBoot /\ [][NextBoot]_vars

\* ------------------------------------------- the tools, called concurrently

\* Calls begun so far: the ones that ended and the ones in progress.
Started == Len(calls) + Cardinality({p \in Procs : pc[p] # "idle"})

\* What a caller keeps between the steps of its call.
Locals(op, arg, ans, tainted_before, d, event) ==
    [op |-> op, arg |-> arg, ans |-> ans, tainted_before |-> tainted_before,
     tainted_after |-> IS_TAINTED', event |-> event, ret |-> d.ret,
     data |-> <<>>, file_before |-> logFile, replaced |-> NoFile]

\* Caller p enters log_event with the decision d: the event is built.
EnterLogEvent(p, op, arg, ans, d) ==
    /\ clock' = clock + 1
    /\ pending' = [pending EXCEPT ![p] =
                     Locals(op, arg, ans, IS_TAINTED, d,
                            Event(clock + 1, d.event_type, d.details, d.score,
                                  d.action))]
    /\ pc' = [pc EXCEPT ![p] = "load"]

\* analyze_incoming_content up to its call of log_event.
AnalyzeBegin(p, content_to_scan, ans) ==
    /\ pc[p] = "idle"
    /\ Started < MaxConcCalls
    /\ ans.ok
    /\ injCalls' = injCalls + 1
    /\ LET d == analyze_result(content_to_scan, ans, IS_TAINTED)
       IN /\ IS_TAINTED' = d.tainted
          /\ EnterLogEvent(p, "analyze", content_to_scan, ans, d)
    /\ UNCHANGED <<CONFIG, imported, seen, logFile, piiCalls, nfaults, calls>>

\* scan_output_data up to its call of log_event: the flag is read once.
ScanBegin(p, data_to_scan, ans) ==
    /\ pc[p] = "idle"
    /\ Started < MaxConcCalls
    /\ ans.ok
    /\ piiCalls' = IF scan_calls_pii(IS_TAINTED) THEN piiCalls + 1 ELSE piiCalls
    /\ IS_TAINTED' = IS_TAINTED
    /\ EnterLogEvent(p, "scan", data_to_scan,
                     IF scan_calls_pii(IS_TAINTED) THEN ans ELSE NoAnswer,
                     scan_result(data_to_scan, ans, IS_TAINTED))
    /\ UNCHANGED <<CONFIG, imported, seen, logFile, injCalls, nfaults, calls>>

\* reset_security_session up to its call of log_event.
ResetBegin(p) ==
    /\ pc[p] = "idle"
    /\ Started < MaxConcCalls
    /\ IS_TAINTED' = reset_result.tainted
    /\ EnterLogEvent(p, "reset", "", NoAnswer, reset_result)
    /\ UNCHANGED <<CONFIG, imported, seen, logFile, injCalls, piiCalls, nfaults, calls>>

\* log_event, open "r+" and json.load: the caller holds the list it read, or
\* goes to the except clause.
LogLoad(p) ==
    /\ pc[p] = "load"
    /\ pending' = [pending EXCEPT ![p].data = Records(logFile),
                                  ![p].file_before = logFile]
    /\ pc' = [pc EXCEPT ![p] = IF logFile.kind = "list" THEN "write" ELSE "recover"]
    /\ UNCHANGED <<CONFIG, imported, seen, IS_TAINTED, logFile, clock, injCalls, piiCalls, nfaults, calls>>

\* log_event, data.append, seek, json.dump and truncate: the file becomes the
\* list the caller read, with its event added.
LogWrite(p) ==
    /\ pc[p] = "write"
    /\ logFile' = ListFile(data_append(pending[p].data, pending[p].event))
    /\ pc' = [pc EXCEPT ![p] = "return"]
    /\ UNCHANGED <<CONFIG, imported, seen, IS_TAINTED, clock, injCalls, piiCalls, nfaults, calls, pending>>

\* log_event, the except clause: the file is rewritten as [event].
LogRecover(p) ==
    /\ pc[p] = "recover"
    /\ \E out \in log_event_recover(logFile, pending[p].event, "none") :
          logFile' = out.file
    /\ pc' = [pc EXCEPT ![p] = "return"]
    /\ UNCHANGED <<CONFIG, imported, seen, IS_TAINTED, clock, injCalls, piiCalls, nfaults, calls, pending>>

\* The tool returns its dict to the caller.
Return(p) ==
    /\ pc[p] = "return"
    /\ calls' = Append(calls,
                       CallRecord(pending[p].op, pending[p].arg, pending[p].ans,
                                  pending[p].tainted_before, pending[p].file_before,
                                  pending[p].event, FALSE, FALSE, pending[p].ret,
                                  pending[p].tainted_after, logFile))
    /\ pc' = [pc EXCEPT ![p] = "idle"]
    /\ pending' = [pending EXCEPT ![p] = NoPending]
    /\ UNCHANGED <<CONFIG, imported, seen, IS_TAINTED, logFile, clock, injCalls, piiCalls, nfaults>>

NextConc ==
    \/ \E p \in Procs, c \in Contents, ans \in ScannerAnswers : AnalyzeBegin(p, c, ans)
    \/ \E p \in Procs, d \in Datas, ans \in ScannerAnswers : ScanBegin(p, d, ans)
    \/ \E p \in Procs : ResetBegin(p)
    \/ \E p \in Procs : LogLoad(p)
    \/ \E p \in Procs : LogWrite(p)
    \/ \E p \in Procs : LogRecover(p)
    \/ \E p \in Procs : Return(p)

SpecConc == Init /\ [][NextConc]_vars

\* ------------------------------------------------- the dashboard's reader

\* LOG_FILE.stat().st_size, in bytes: 0 for the empty file, 2 for "[]", and
\* for a list with records at least MinSize. A file that does not parse may
\* be shorter than MinSize or not.
MinSize == 5
Sizes(file) ==
    CASE file.kind = "empty" -> {0}
      [] file.kind = "corrupt" -> {1, MinSize}
      [] file.kind = "list" -> IF file.data = <<>> THEN {2} ELSE {MinSize}
      [] OTHER -> {0}

\* pd.to_datetime(...).dt.strftime('%Y-%m-%d %H:%M:%S'): the timestamp as a
\* string in that format.
strftime(timestamp) == <<"%Y-%m-%d %H:%M:%S", timestamp>>

\* One row of the DataFrame: the event's columns, with details flattened to
\* the columns details.* and the timestamp formatted.
Row(e) ==
    [timestamp |-> strftime(e.timestamp), event_type |-> e.event_type,
     risk_score |-> e.risk_score, action |-> e.action, details_columns |-> e.details]

\* load_data of dashboard.py on a file of st_size size: the rows of the
\* DataFrame it returns and whether it reported a parse error (st.error).
load_data(file, size) ==
    IF file.kind = "missing" \/ size < MinSize
    THEN [rows |-> <<>>, error |-> FALSE]
    ELSE IF file.kind # "list"
    THEN [rows |-> <<>>, error |-> TRUE]
    ELSE IF file.data = <<>>
    THEN [rows |-> <<>>, error |-> FALSE]
    ELSE [rows |-> [k \in DOMAIN file.data |-> Row(file.data[k])], error |-> FALSE]

\* The number of records in the last complete content of the file: the file
\* itself when it is a list, else the list that a rewrite in progress
\* replaced.
Min(S) == CHOOSE x \in S : \A y \in S : x <= y
Durable ==
    IF logFile.kind = "list" THEN Len(logFile.data)
    ELSE LET rewriting == {p \in Procs : /\ pc[p] \in {"writing", "recovering"}
                                         /\ pending[p].replaced.kind = "list"}
             counts == {Len(pending[p].replaced.data) : p \in rewriting}
         IN IF counts = {} THEN 0 ELSE Min(counts)

\* One pass of the dashboard's loop: load_data reads the file as it is now.
MonitorRead ==
    /\ \E size \in Sizes(logFile) :
          LET df == load_data(logFile, size)
          IN seen' = [rows |-> df.rows, error |-> df.error, durable |-> Durable,
                      loaded |-> TRUE]
    /\ seen' # seen
    /\ UNCHANGED <<CONFIG, IS_TAINTED, logFile, clock, injCalls, piiCalls, nfaults,
                   calls, pc, pending, imported>>

\* log_event, json.dump after seek(0), seen from outside while the bytes are
\* being written: the file holds the start of the new text.
LogWritePartial(p) ==
    /\ pc[p] = "write"
    /\ logFile' = CorruptFile
    /\ pending' = [pending EXCEPT ![p].replaced = logFile]
    /\ pc' = [pc EXCEPT ![p] = "writing"]
    /\ UNCHANGED <<CONFIG, imported, seen, IS_TAINTED, clock, injCalls, piiCalls, nfaults, calls>>

\* log_event, the end of json.dump and truncate.
LogWriteFinish(p) ==
    /\ pc[p] = "writing"
    /\ logFile' = ListFile(data_append(pending[p].data, pending[p].event))
    /\ pc' = [pc EXCEPT ![p] = "return"]
    /\ UNCHANGED <<CONFIG, imported, seen, IS_TAINTED, clock, injCalls, piiCalls, nfaults, calls, pending>>

\* log_event, the except clause, open "w": the file is truncated to zero
\* bytes before [event] is written.
LogRecoverTruncate(p) ==
    /\ pc[p] = "recover"
    /\ logFile' = EmptyFile
    /\ pending' = [pending EXCEPT ![p].replaced = logFile]
    /\ pc' = [pc EXCEPT ![p] = "recovering"]
    /\ UNCHANGED <<CONFIG, imported, seen, IS_TAINTED, clock, injCalls, piiCalls, nfaults, calls>>

\* log_event, the except clause, json.dump([event]) and close.
LogRecoverFinish(p) ==
    /\ pc[p] = "recovering"
    /\ logFile' = ListFile(<<pending[p].event>>)
    /\ pc' = [pc EXCEPT ![p] = "return"]
    /\ UNCHANGED <<CONFIG, imported, seen, IS_TAINTED, clock, injCalls, piiCalls, nfaults, calls, pending>>

NextMon ==
    \/ NextConc
    \/ MonitorRead
    \/ \E p \in Procs : LogWritePartial(p)
    \/ \E p \in Procs : LogWriteFinish(p)
    \/ \E p \in Procs : LogRecoverTruncate(p)
    \/ \E p \in Procs : LogRecoverFinish(p)

\* The dashboard is watched from a store that parses or is empty.
InitMon == Init /\ logFile.kind \in {"list", "empty"}

SpecMon == InitMon /\ [][NextMon]_vars

\* ------------------------------------------------------------- properties

\* Readings of the history.
Idx == DOMAIN calls
ReachedLog(i) == calls[i].event # NoEvent
Returned(i) == ~calls[i].raised
Blocked(i) ==
    calls[i].op = "analyze" /\ Returned(i) /\ calls[i].ret.action = "BLOCKED_INPUT"
NoResetBetween(i, j) == \A k \in Idx : (i < k /\ k < j) => calls[k].op # "reset"
NoInjectionBetween(i, j) ==
    \A k \in Idx :
        (i < k /\ k < j) =>
            ~(calls[k].op = "analyze" /\ calls[k].ans.ok /\ ~calls[k].ans.valid)
IsEvent(e) == e # NoEvent
EventsProduced == SelectSeq([i \in Idx |-> calls[i].event], IsEvent)
InitialFile == IF calls = <<>> THEN logFile ELSE calls[1].file_before
Unparseable == {"empty", "corrupt", "missing"}
DeniedResult(r) ==
    /\ r.status = "ACCESS_DENIED"
    /\ r.action = "DENIED_ACCESS"
    /\ r.risk_score = ScoreDenied
IsResetRecord(e) ==
    /\ e.event_type = "ADMIN_ACTION"
    /\ e.action = "SESSION_RESET"
    /\ e.risk_score = ScoreZero

\* C1: once an analyze_incoming_content call has returned BLOCKED_INPUT, every
\* scan_output_data call made before the next reset_security_session call
\* decides DENIED_ACCESS and, when it returns, returns status ACCESS_DENIED,
\* action DENIED_ACCESS and risk_score 1.0, for every text it is given; such a
\* call hands nothing to its caller only when log_event raised.
C1_TaintedUntilReset ==
    \A i \in Idx : \A j \in Idx :
        (i < j /\ Blocked(i) /\ calls[j].op = "scan" /\ NoResetBetween(i, j)) =>
            /\ calls[j].tainted_before
            /\ calls[j].event.action = "DENIED_ACCESS"
            /\ calls[j].raised => calls[j].faulted
            /\ Returned(j) => DeniedResult(calls[j].ret)

\* A blocked input, then a scan of each of the two texts, both denied.
C1_Witness ==
    /\ Len(calls) = 3
    /\ Blocked(1)
    /\ calls[2].op = "scan" /\ calls[2].arg = "hi"
    /\ calls[3].op = "scan" /\ calls[3].arg = "my ssn is 123-45-6789"
    /\ DeniedResult(calls[2].ret)
    /\ DeniedResult(calls[3].ret)

\* C2: a scan_output_data call made while the taint flag is true does not call
\* pii_scanner.scan: the scanner has been called once for each
\* scan_output_data call that found the flag false, and every call that
\* decided DENIED_ACCESS found it true.
C2_DeniedScanNeverScores ==
    /\ piiCalls = Cardinality({i \in Idx : calls[i].op = "scan" /\ ~calls[i].tainted_before})
    /\ \A i \in Idx :
          (calls[i].op = "scan" /\ calls[i].event.action = "DENIED_ACCESS")
              => calls[i].tainted_before

\* A scored scan, a blocked input, a denied scan: the scanner ran once.
C2_Witness ==
    /\ Len(calls) = 3
    /\ calls[1].op = "scan" /\ Returned(1)
    /\ Blocked(2)
    /\ calls[3].op = "scan" /\ Returned(3) /\ calls[3].ret.action = "DENIED_ACCESS"
    /\ piiCalls = 1

\* C3: after a reset_security_session call, from CLEAN or from TAINTED, a
\* scan_output_data call with no injection detected in between and with the
\* PII scanner reporting the data valid decides ALLOWED_OUTPUT, not
\* DENIED_ACCESS, and returns it.
C3_ResetClearsTaint ==
    \A i \in Idx : \A j \in Idx :
        (/\ i < j
         /\ calls[i].op = "reset"
         /\ calls[j].op = "scan"
         /\ NoInjectionBetween(i, j)
         /\ ReachedLog(j)
         /\ calls[j].ans.valid) =>
            /\ ~calls[j].tainted_before
            /\ calls[j].event.action = "ALLOWED_OUTPUT"
            /\ Returned(j) => calls[j].ret.action = "ALLOWED_OUTPUT"

\* A tainted session is reset and the next scan is allowed.
C3_Witness ==
    /\ Len(calls) = 3
    /\ Blocked(1)
    /\ calls[2].op = "reset" /\ calls[2].tainted_before
    /\ calls[3].op = "scan" /\ Returned(3)
    /\ calls[3].ret.action = "ALLOWED_OUTPUT"

\* C4, as stated: every call that returns has produced one action of the
\* closed set and added exactly one record to the audit log.
C4_Original ==
    \A i \in Idx :
        Returned(i) =>
            /\ calls[i].event.action \in Actions
            /\ Len(Records(calls[i].file_after)) = Len(Records(calls[i].file_before)) + 1

\* C4, amended: every call that reaches log_event hands it exactly one action
\* of the closed set, the action it returns; the call adds exactly one record
\* to the audit log when log_event meets no I/O failure, never more than one,
\* and none when log_event meets an I/O failure and returns from a file that
\* was not empty.
C4_OneActionOneRecord ==
    \A i \in Idx :
        ReachedLog(i) =>
            /\ calls[i].event.action \in Actions
            /\ (Returned(i) /\ calls[i].op # "reset")
                  => calls[i].ret.action = calls[i].event.action
            /\ Len(Records(calls[i].file_after)) <= Len(Records(calls[i].file_before)) + 1
            /\ ~calls[i].faulted
                  => Records(calls[i].file_after)
                        = Append(Records(calls[i].file_before), calls[i].event)
            /\ (calls[i].faulted /\ Returned(i) /\ calls[i].file_before.kind # "empty")
                  => Records(calls[i].file_after) \in {Records(calls[i].file_before), <<>>}

\* One call added its record to a log that held one; another met an I/O
\* failure, returned its action and added nothing.
C4_Witness ==
    /\ \E i \in Idx :
          /\ ~calls[i].faulted /\ ReachedLog(i)
          /\ Len(Records(calls[i].file_before)) = 1
          /\ Len(Records(calls[i].file_after)) = 2
    /\ \E j \in Idx :
          /\ calls[j].faulted /\ Returned(j)
          /\ calls[j].event.action \in Actions
          /\ calls[j].file_after = calls[j].file_before

\* C5, as stated: from a store that holds a valid list, after N calls that all
\* returned, the log holds at least N records: the list it started with,
\* then the events of the calls, in call order.
C5_Original ==
    (InitialFile.kind = "list" /\ \A i \in Idx : Returned(i)) =>
        /\ logFile.kind = "list"
        /\ Len(logFile.data) >= Len(calls)
        /\ logFile.data = InitialFile.data \o EventsProduced

\* C5, amended: under serialized access, from a store that holds a valid
\* list, after N calls that reached log_event and met no I/O failure in it the
\* log holds the list it started with, then the N events in call order; and
\* every append that meets no I/O failure on a valid list leaves the records
\* stored before it unchanged and in place, the new one after them.
C5_AppendOnlyInCallOrder ==
    /\ (InitialFile.kind = "list" /\ \A i \in Idx : ~calls[i].faulted) =>
          /\ logFile = ListFile(InitialFile.data \o EventsProduced)
          /\ Len(logFile.data) >= Len(EventsProduced)
    /\ \A i \in Idx :
          (ReachedLog(i) /\ ~calls[i].faulted /\ calls[i].file_before.kind = "list") =>
              /\ calls[i].file_after.kind = "list"
              /\ calls[i].file_after.data = Append(calls[i].file_before.data, calls[i].event)
    /\ \A i \in Idx : (i > 1) => calls[i].file_before = calls[i - 1].file_after
    /\ Idx # {} => logFile = calls[Len(calls)].file_after

\* Three calls, none failing, on a valid list: three records in call order.
C5_Witness ==
    /\ Len(calls) = 3
    /\ InitialFile.kind = "list"
    /\ \A i \in Idx : ~calls[i].faulted /\ ReachedLog(i)
    /\ logFile.data = <<calls[1].event, calls[2].event, calls[3].event>>
    /\ calls[1].event # calls[2].event

\* C6, as stated: when the concurrent calls have all returned, the log holds
\* one record for each of them.
C6_ConcurrentAppendsAllKept ==
    (\A p \in Procs : pc[p] = "idle") => Len(Records(logFile)) = Len(calls)

\* C7, as stated: with enable_prompt_injection_scanner false the injection
\* scanner is never called, and analyze_incoming_content returns
\* ALLOWED_INPUT with score 0.0 and leaves the taint flag as it was.
C7_DisabledScannerSkipsScoring ==
    ~CONFIG.enable_prompt_injection_scanner =>
        /\ injCalls = 0
        /\ \A i \in Idx :
              calls[i].op = "analyze" =>
                  /\ Returned(i)
                  /\ calls[i].ret.action = "ALLOWED_INPUT"
                  /\ calls[i].ret.risk_score = ScoreZero
                  /\ calls[i].tainted_after = calls[i].tainted_before

\* C8, as stated: no failure of log_event reaches the caller of a tool: a call
\* that reached log_event returns its result.
C8_LogFailureNeverEscapes ==
    \A i \in Idx : ReachedLog(i) => Returned(i)

\* C9, as stated: two reset_security_session calls in a row that both return
\* leave the flag false after each and the log ending with their two
\* SESSION_RESET records.
C9_Original ==
    \A i \in Idx : \A j \in Idx :
        (j = i + 1 /\ calls[i].op = "reset" /\ calls[j].op = "reset"
         /\ Returned(i) /\ Returned(j)) =>
            /\ ~calls[i].tainted_after /\ ~calls[j].tainted_after
            /\ Len(Records(calls[j].file_after)) >= 2
            /\ SubSeq(Records(calls[j].file_after),
                      Len(Records(calls[j].file_after)) - 1,
                      Len(Records(calls[j].file_after)))
                  = <<calls[i].event, calls[j].event>>

\* C9, amended: two reset_security_session calls in a row leave the taint
\* flag false after each call, whether the session was tainted or clean
\* before the first; each hands log_event a SESSION_RESET record (event_type
\* ADMIN_ACTION, risk_score 0.0), and when neither log_event meets an I/O
\* failure the log ends with these two records, one per call.
C9_ResetTwice ==
    \A i \in Idx : \A j \in Idx :
        (j = i + 1 /\ calls[i].op = "reset" /\ calls[j].op = "reset") =>
            /\ ~calls[i].tainted_after /\ ~calls[j].tainted_before
            /\ ~calls[j].tainted_after
            /\ IsResetRecord(calls[i].event) /\ IsResetRecord(calls[j].event)
            /\ calls[i].event # calls[j].event
            /\ (~calls[i].faulted /\ ~calls[j].faulted) =>
                  /\ Len(Records(calls[j].file_after)) >= 2
                  /\ SubSeq(Records(calls[j].file_after),
                            Len(Records(calls[j].file_after)) - 1,
                            Len(Records(calls[j].file_after)))
                        = <<calls[i].event, calls[j].event>>

\* A tainted session reset twice: clean after both, two records more.
C9_Witness ==
    /\ Len(calls) = 3
    /\ Blocked(1)
    /\ calls[2].op = "reset" /\ calls[2].tainted_before /\ Returned(2)
    /\ calls[3].op = "reset" /\ ~calls[3].tainted_before /\ Returned(3)
    /\ ~IS_TAINTED
    /\ Len(Records(logFile)) = Len(Records(calls[2].file_before)) + 2

FlagAfter(c) ==
    IF c.op = "analyze" /\ c.ans.ok /\ ~c.ans.valid THEN TRUE
    ELSE IF c.op = "reset" THEN FALSE
    ELSE c.tainted_before

\* C12: the taint flag is false at process start and changes on two
\* transitions only: analyze_incoming_content sets it exactly when the
\* injection scanner reports the content invalid, reset_security_session
\* clears it; scan_output_data on each of its branches, and
\* analyze_incoming_content with valid content, leave it as it was.
C12_TaintFrame ==
    /\ calls = <<>> => ~IS_TAINTED
    /\ calls # <<>> =>
          /\ ~calls[1].tainted_before
          /\ IS_TAINTED = calls[Len(calls)].tainted_after
    /\ \A i \in Idx :
          /\ calls[i].tainted_after = FlagAfter(calls[i])
          /\ i > 1 => calls[i].tainted_before = calls[i - 1].tainted_after

\* A tainted session stays tainted through an allowed input and a denied
\* scan.
C12_Witness ==
    /\ Len(calls) = 3
    /\ Blocked(1)
    /\ calls[2].op = "analyze" /\ Returned(2)
    /\ calls[2].ret.action = "ALLOWED_INPUT"
    /\ calls[3].op = "scan" /\ Returned(3)
    /\ calls[3].ret.action = "DENIED_ACCESS"
    /\ IS_TAINTED

\* What analyze_incoming_content must return for the scanner's answer.
AnalyzeMapped(c) ==
    IF ~c.ans.valid
    THEN /\ c.ret.status = "SECURITY_ALERT"
         /\ c.ret.action = "BLOCKED_INPUT"
         /\ c.ret.is_valid = FALSE
         /\ c.ret.risk_score = c.ans.score
    ELSE /\ c.ret.status = "SUCCESS"
         /\ c.ret.action = "ALLOWED_INPUT"
         /\ c.ret.is_valid = TRUE
         /\ c.ret.risk_score = c.ans.score

\* The record analyze_incoming_content must hand to log_event.
AnalyzeLogged(c) ==
    /\ c.event.event_type = (IF c.ans.valid THEN "INFO" ELSE "INJECTION_DETECTED")
    /\ c.event.action = (IF c.ans.valid THEN "ALLOWED_INPUT" ELSE "BLOCKED_INPUT")
    /\ c.event.risk_score = c.ans.score

\* C13, as stated: an analyze_incoming_content call that returns has returned
\* the result its scanner answer maps to and appended one record of the
\* matching type to the log.
C13_Original ==
    \A i \in Idx :
        (calls[i].op = "analyze" /\ Returned(i)) =>
            /\ AnalyzeMapped(calls[i])
            /\ Records(calls[i].file_after)
                  = Append(Records(calls[i].file_before), calls[i].event)

\* C13, amended: analyze_incoming_content maps the scanner's answer to its
\* result for every input, in CLEAN and in TAINTED alike: invalid gives
\* status SECURITY_ALERT, action BLOCKED_INPUT, is_valid false and the
\* scanner's score, and the flag becomes true; otherwise status SUCCESS,
\* action ALLOWED_INPUT, is_valid true and the scanner's score. One record
\* (INJECTION_DETECTED, respectively INFO) is handed to log_event, and it is
\* appended when log_event meets no I/O failure.
C13_AnalyzeMapsAnswer ==
    \A i \in Idx :
        (calls[i].op = "analyze" /\ calls[i].ans.ok) =>
            /\ Returned(i) => AnalyzeMapped(calls[i])
            /\ AnalyzeLogged(calls[i])
            /\ ~calls[i].ans.valid => calls[i].tainted_after
            /\ calls[i].raised => calls[i].faulted
            /\ ~calls[i].faulted
                  => Records(calls[i].file_after)
                        = Append(Records(calls[i].file_before), calls[i].event)

\* In a tainted session one input is allowed with the low score and the
\* next is blocked with the high score; both are logged.
C13_Witness ==
    /\ Len(calls) = 3
    /\ Blocked(1)
    /\ calls[2].op = "analyze" /\ calls[2].tainted_before /\ Returned(2)
    /\ calls[2].ret.action = "ALLOWED_INPUT" /\ calls[2].ret.risk_score = ScoreLow
    /\ calls[3].op = "analyze" /\ Returned(3)
    /\ calls[3].ret.action = "BLOCKED_INPUT" /\ calls[3].ret.risk_score = ScoreHigh
    /\ Len(Records(logFile)) = Len(Records(InitialFile)) + 3

\* C14: in state CLEAN scan_output_data calls the PII scanner exactly once
\* and maps its answer to the result: invalid gives status SUCCESS_REDACTED,
\* action REDACTED_OUTPUT, the scanner's score and the scanner's redacted
\* text; otherwise status SUCCESS, action ALLOWED_OUTPUT, risk_score 0.0 and
\* the input data unchanged.
C14_CleanScanMapsAnswer ==
    /\ piiCalls = Cardinality({i \in Idx : calls[i].op = "scan" /\ ~calls[i].tainted_before})
    /\ \A i \in Idx :
          (calls[i].op = "scan" /\ ~calls[i].tainted_before /\ calls[i].ans.ok
           /\ Returned(i)) =>
              IF ~calls[i].ans.valid
              THEN /\ calls[i].ret.status = "SUCCESS_REDACTED"
                   /\ calls[i].ret.action = "REDACTED_OUTPUT"
                   /\ calls[i].ret.risk_score = calls[i].ans.score
                   /\ calls[i].ret.sanitized_data = Sanitized(calls[i].arg, calls[i].ans)
                   /\ calls[i].ret.sanitized_data = RedactedText
              ELSE /\ calls[i].ret.status = "SUCCESS"
                   /\ calls[i].ret.action = "ALLOWED_OUTPUT"
                   /\ calls[i].ret.risk_score = ScoreZero
                   /\ calls[i].ret.sanitized_data = calls[i].arg

\* Two clean scans of the same text, one redacted and one allowed.
C14_Witness ==
    /\ Len(calls) = 2
    /\ piiCalls = 2
    /\ calls[1].op = "scan" /\ Returned(1)
    /\ calls[1].ret.action = "REDACTED_OUTPUT"
    /\ calls[1].ret.sanitized_data = RedactedText
    /\ calls[2].op = "scan" /\ Returned(2)
    /\ calls[2].ret.action = "ALLOWED_OUTPUT"
    /\ calls[2].ret.sanitized_data = "my ssn is 123-45-6789"

\* C15, as stated: a scanner that fails inside analyze_incoming_content or
\* scan_output_data fails closed: the call returns a result instead of
\* raising, that result never allows the content, and for
\* analyze_incoming_content the session becomes tainted and the action is
\* BLOCKED_INPUT.
C15_OracleFailureFailsClosed ==
    \A i \in Idx :
        ~calls[i].ans.ok =>
            /\ Returned(i)
            /\ calls[i].ret.action \notin {"ALLOWED_INPUT", "ALLOWED_OUTPUT"}
            /\ calls[i].op = "analyze" =>
                  /\ calls[i].tainted_after
                  /\ calls[i].ret.action = "BLOCKED_INPUT"

\* The (event_type, action) pairs the tools pass to log_event.
AllowedPairs ==
    {<<"INJECTION_DETECTED", "BLOCKED_INPUT">>, <<"INFO", "ALLOWED_INPUT">>,
     <<"ACCESS_DENIED", "DENIED_ACCESS">>, <<"PII_REDACTED", "REDACTED_OUTPUT">>,
     <<"INFO", "ALLOWED_OUTPUT">>, <<"ADMIN_ACTION", "SESSION_RESET">>}
WellLabelled(e) ==
    /\ <<e.event_type, e.action>> \in AllowedPairs
    /\ e.action = "DENIED_ACCESS" => e.risk_score = ScoreDenied
    /\ e.action \in {"ALLOWED_OUTPUT", "SESSION_RESET"} => e.risk_score = ScoreZero

\* C16: every record in the audit log has an (event_type, action) pair from
\* the six pairs of AllowedPairs; its risk_score is 1.0 for DENIED_ACCESS and
\* 0.0 for ALLOWED_OUTPUT and SESSION_RESET; and the record built by an
\* analyze_incoming_content or scan_output_data call carries the action and
\* the risk_score that call returns.
C16_RecordsWellLabelled ==
    /\ \A k \in DOMAIN Records(logFile) : WellLabelled(Records(logFile)[k])
    /\ \A i \in Idx :
          ReachedLog(i) =>
              /\ WellLabelled(calls[i].event)
              /\ (calls[i].op \in {"analyze", "scan"} /\ Returned(i)) =>
                    /\ calls[i].event.action = calls[i].ret.action
                    /\ calls[i].event.risk_score = calls[i].ret.risk_score

\* A blocked input, a denied scan and a reset, all three in the log.
C16_Witness ==
    /\ Len(calls) = 3
    /\ Blocked(1)
    /\ calls[2].op = "scan" /\ Returned(2) /\ calls[2].ret.action = "DENIED_ACCESS"
    /\ calls[3].op = "reset" /\ Returned(3)
    /\ logFile.kind = "list"
    /\ logFile.data = <<calls[1].event, calls[2].event, calls[3].event>>
    /\ logFile.data[1].event_type = "INJECTION_DETECTED"
    /\ logFile.data[1].risk_score = ScoreHigh

\* C18: the flag is stored before log_event runs. A detected injection
\* leaves the session tainted whether log_event appends, drops the record or
\* raises, and every scan_output_data call before the next reset then takes
\* the denied branch; reset_security_session leaves the flag false whether
\* its append succeeds, fails or raises.
C18_TaintIndependentOfAppend ==
    /\ \A i \in Idx :
          (calls[i].op = "analyze" /\ calls[i].ans.ok /\ ~calls[i].ans.valid) =>
              /\ calls[i].tainted_after
              /\ i < Len(calls) => calls[i + 1].tainted_before
              /\ i = Len(calls) => IS_TAINTED
              /\ \A j \in Idx :
                    (i < j /\ calls[j].op = "scan" /\ NoResetBetween(i, j)) =>
                        /\ ReachedLog(j)
                        /\ calls[j].event.action = "DENIED_ACCESS"
                        /\ Returned(j) => DeniedResult(calls[j].ret)
    /\ \A i \in Idx :
          calls[i].op = "reset" =>
              /\ ~calls[i].tainted_after
              /\ i < Len(calls) => ~calls[i + 1].tainted_before
              /\ i = Len(calls) => ~IS_TAINTED

\* An injection whose log_event raised, leaving no record, is followed by a
\* denied scan.
C18_Witness ==
    /\ Len(calls) = 2
    /\ calls[1].op = "analyze" /\ calls[1].ans.ok /\ ~calls[1].ans.valid
    /\ calls[1].raised
    /\ Records(calls[1].file_after) = <<>>
    /\ calls[2].op = "scan" /\ Returned(2)
    /\ calls[2].ret.action = "DENIED_ACCESS"

\* C17, as stated: for every interleaving of concurrent calls the audit log
\* never shows an ALLOWED_OUTPUT or REDACTED_OUTPUT record after a
\* BLOCKED_INPUT record without a SESSION_RESET record between the two.
C17_LogOrderFollowsTaint ==
    LET log == Records(logFile)
    IN \A a \in DOMAIN log : \A b \in DOMAIN log :
          (a < b /\ log[a].action = "BLOCKED_INPUT"
           /\ log[b].action \in {"ALLOWED_OUTPUT", "REDACTED_OUTPUT"}) =>
              \E c \in DOMAIN log :
                  a < c /\ c < b /\ log[c].action = "SESSION_RESET"

\* The fields of a record of the audit log.
EventFields == {"timestamp", "event_type", "details", "risk_score", "action"}
ListOfRecords(file) ==
    /\ file.kind = "list"
    /\ \A k \in DOMAIN file.data : DOMAIN file.data[k] = EventFields

C11_StoreShape ==
    /\ (imported /\ calls = <<>>) => logFile.kind # "missing"
    /\ logFile.kind = "list" => ListOfRecords(logFile)
    /\ \A i \in Idx :
          (ReachedLog(i) /\ ~calls[i].faulted) =>
              /\ ListOfRecords(calls[i].file_after)
              /\ calls[i].file_after.data[Len(calls[i].file_after.data)] = calls[i].event

\* The step that imports the module creates a missing store as the empty
\* list and leaves an existing store, parseable or not, as it is.
C11_ImportStep ==
    (~imported /\ imported') =>
        IF logFile.kind = "missing"
        THEN logFile' = ListFile(<<>>)
        ELSE logFile' = logFile

C19_MonitorSeesBeforeOrAfter ==
    seen.loaded =>
        /\ ~seen.error
        /\ Len(seen.rows) >= seen.durable

====
